---- MODULE Spec2Model ----
(***************************************************************************)
(* Model of src/hyperloglog/compression.py: the dense register codec       *)
(* (pack_registers / unpack_registers) and the sparse register codec       *)
(* (compress_sparse_registers / decompress_sparse_registers).              *)
(*                                                                         *)
(* The four functions are pure; a behaviour is one call: the initial state *)
(* holds the function called and its arguments, and the call's action sets *)
(* its outcome.  A round trip feeds the bytes a call returned to the       *)
(* inverse function.  An outcome is either a returned value or a raised    *)
(* Python exception, recorded with the source line that raises it.         *)
(*                                                                         *)
(* Python integers are unbounded, so every bitstream is modelled bit by    *)
(* bit (bit k of the integer), never as one number.  Register values and   *)
(* sparse fields given as input are below 2^31; values read back from      *)
(* bytes are bit vectors of the field width and are narrowed to a 32-bit   *)
(* array element exactly where the code stores them into an np.int32       *)
(* array.                                                                  *)
(*                                                                         *)
(* What NumPy does differs between releases in two places the code relies  *)
(* on (the truth value of an empty array, the store of an out-of-range     *)
(* Python int into an int32 element); each call is evaluated under every   *)
(* release family of NumpyBuilds.                                          *)
(***************************************************************************)
EXTENDS Integers, Sequences, FiniteSets

VARIABLES op, kind, registers, binbits, data, m, entries, b, rbits, fed, result

vars == <<op, kind, registers, binbits, data, m, entries, b, rbits, fed, result>>

(***************************************************************************)
(* Bounds of the model.                                                    *)
(***************************************************************************)
MaxRegs == 3
MaxDataLen == 4
MaxM == 3
MaxEntries == 2
BigLen == 16385
BigM == 16385
WideB == 32

(***************************************************************************)
(* Program constants.                                                      *)
(***************************************************************************)
MaxBinbits == 64
SafetyLimitBits == 1048576

(***************************************************************************)
(* Input domains.                                                          *)
(***************************************************************************)
NumpyBuilds == {"numpy1", "numpy2_0", "numpy2_2"}
ArrayKinds == {"list", "ndarray"}
RegValues == {-1, 0, 1, 2, 3, 16}
ByteValues == {0, 3, 33, 255}
BinbitsValues == {0, 1, 4, 8, 31, 32, 64, 65}
BValues == {0, 1, 2, 4}
RbitsValues == {0, 1, 2, 6}
IdxValues == {0, 1, 2, 4}
RhoValues == {0, 5, 10}

SeqsUpTo(S, n) == UNION {[1..k -> S] : k \in 0..n}

BigRegisters == [i \in 1..BigLen |-> 0]
BigData == [i \in 1..((BigM * MaxBinbits + 7) \div 8) |-> 0]

RegisterArrays == SeqsUpTo(RegValues, MaxRegs)
ByteStrings == SeqsUpTo(ByteValues, MaxDataLen)
Counts == -1..MaxM
EntryArrays == SeqsUpTo(IdxValues \X RhoValues, MaxEntries)

(***************************************************************************)
(* Outcomes of a call.                                                     *)
(***************************************************************************)
Ok(v) == [tag |-> "ok", exc |-> "", line |-> 0, value |-> v]
Raise(e, l) == [tag |-> "raise", exc |-> e, line |-> l, value |-> <<>>]
NoResult == [tag |-> "none", exc |-> "", line |-> 0, value |-> <<>>]

(***************************************************************************)
(* Bits of Python integers and of byte strings.                            *)
(***************************************************************************)
RECURSIVE Pow2(_)
Pow2(n) == IF n = 0 THEN 1 ELSE 2 * Pow2(n - 1)

\* (n >> j) & 1 for a Python int 0 <= n < 2^31
BitOfInt(n, j) == IF j > 30 THEN 0 ELSE (n \div Pow2(j)) % 2

\* (int.from_bytes(d, 'little') >> k) & 1
BitOfBytes(d, k) ==
    IF (k \div 8) + 1 \in DOMAIN d THEN (d[(k \div 8) + 1] \div Pow2(k % 8)) % 2 ELSE 0

\* (int.from_bytes(d, 'little') >> shift) & ((1 << width) - 1), as bits 0..width-1
Field(d, shift, width) == [j \in 0..(width - 1) |-> BitOfBytes(d, shift + j)]

RECURSIVE LowValue(_, _)
LowValue(bits, j) ==
    IF j \notin DOMAIN bits \/ j > 30 THEN 0
    ELSE bits[j] * Pow2(j) + LowValue(bits, j + 1)

\* arr[i] = v for an np.int32 array arr and a Python int v >= 0 given by its bits
StoreInt32(np, bits) ==
    LET high == {j \in DOMAIN bits : j >= 31 /\ bits[j] = 1}
        low == LowValue(bits, 0)
    IN  IF high = {} THEN Ok(low)
        ELSE IF np # "numpy1" THEN Raise("OverflowError", 0)
        ELSE IF \E j \in high : j >= 63 THEN Raise("OverflowError", 0)
        ELSE IF 31 \in high THEN Ok((low - 1073741824) - 1073741824)
        ELSE Ok(low)

\* int.to_bytes(n, 'little') of the integer whose bit k is bit[k], k < 8 * n
ToBytes(bit, n) ==
    [j \in 1..n |-> bit[8 * (j - 1)] + 2 * bit[8 * (j - 1) + 1]
                    + 4 * bit[8 * (j - 1) + 2] + 8 * bit[8 * (j - 1) + 3]
                    + 16 * bit[8 * (j - 1) + 4] + 32 * bit[8 * (j - 1) + 5]
                    + 64 * bit[8 * (j - 1) + 6] + 128 * bit[8 * (j - 1) + 7]]

(***************************************************************************)
(* pack_registers                                                          *)
(***************************************************************************)
\* isinstance(val, int) for an element of the container: the elements of an
\* ndarray are NumPy scalars, which are not instances of int
ElementIsInt(k) == k = "list"

\* BinbitsCheck without the upper limit of line 28
BinbitsCheckNoUpper(bb) == IF bb <= 0 THEN 26 ELSE 0

\* lines 25-29: 0 when binbits passes, else the line that raises
BinbitsCheck(bb) ==
    IF bb <= 0 THEN 26
    ELSE IF bb > MaxBinbits THEN 29
    ELSE 0

\* line 31, `not registers`, for an ndarray: "empty", "nonempty" or "raise"
Truth(np, regs) ==
    IF Len(regs) = 0 THEN (IF np = "numpy2_2" THEN "raise" ELSE "empty")
    ELSE IF Len(regs) = 1 THEN (IF regs[1] = 0 THEN "empty" ELSE "nonempty")
    ELSE "raise"

\* val > (1 << bb) - 1 for val < 2^31
ExceedsMax(val, bb) == bb < 31 /\ val > Pow2(bb) - 1

\* lines 39-46 for one element: 0 when it passes, else the line that raises
RegisterCheck(k, val, bb) ==
    IF ~ElementIsInt(k) THEN 40
    ELSE IF val < 0 THEN 43
    ELSE IF ExceedsMax(val, bb) THEN 46
    ELSE 0

\* lines 54-60
PackBits(regs, bb) ==
    LET total == Len(regs) * bb
        needed == (total + 7) \div 8
        bit == [k \in 0..(8 * needed - 1) |->
                   IF k < total THEN BitOfInt(regs[(k \div bb) + 1], k % bb) ELSE 0]
    IN  ToBytes(bit, needed)

pack_registers(np, k, regs, bb) ==
    IF k # "ndarray" THEN Raise("ValueError", 23)
    ELSE IF BinbitsCheck(bb) # 0 THEN Raise("ValueError", BinbitsCheck(bb))
    ELSE IF Truth(np, regs) = "raise" THEN Raise("ValueError", 31)
    ELSE IF Truth(np, regs) = "empty" THEN Ok(<<>>)
    ELSE LET bad == {i \in 1..Len(regs) : RegisterCheck(k, regs[i], bb) # 0}
         IN  IF bad # {}
             THEN Raise("ValueError",
                        RegisterCheck(k, regs[CHOOSE i \in bad : \A j \in bad : i <= j], bb))
             ELSE IF Len(regs) * bb > SafetyLimitBits THEN Raise("OverflowError", 51)
             ELSE Ok(PackBits(regs, bb))

(***************************************************************************)
(* unpack_registers                                                        *)
(***************************************************************************)
unpack_registers(np, d, n, bb) ==
    IF n < 0 THEN Raise("ValueError", 83)
    ELSE IF bb <= 0 THEN Raise("ValueError", 85)
    ELSE IF bb > MaxBinbits THEN Raise("ValueError", 87)
    ELSE IF n = 0 THEN Ok(<<>>)
    ELSE IF Len(d) < (n * bb + 7) \div 8 THEN Raise("ValueError", 95)
    ELSE IF n * bb > SafetyLimitBits THEN Raise("OverflowError", 99)
    ELSE LET stores == [i \in 1..n |-> StoreInt32(np, Field(d, (i - 1) * bb, bb))]
         IN  IF \E i \in 1..n : stores[i].tag = "raise"
             THEN Raise("OverflowError", 108)
             ELSE Ok([i \in 1..n |-> stores[i].value])

(***************************************************************************)
(* compress_sparse_registers                                               *)
(***************************************************************************)
\* EntryBit without the mask on rho: bit j of (idx << rbits) | rho
EntryBitUnmasked(e, rb, j) ==
    IF BitOfInt(e[2], j) = 1 \/ (j >= rb /\ BitOfInt(e[1], j - rb) = 1) THEN 1 ELSE 0

\* line 127: bit j of (idx << rbits) | (rho & ((1 << rbits) - 1)), e = <<idx, rho>>
EntryBit(e, rb, j) == IF j < rb THEN BitOfInt(e[2], j) ELSE BitOfInt(e[1], j - rb)

\* lines 126-129: bit k of the accumulated bitstream
StreamBit(ents, bw, rb, k) ==
    IF \E i \in 1..Len(ents) :
           /\ k >= (i - 1) * (bw + rb)
           /\ EntryBit(ents[i], rb, k - (i - 1) * (bw + rb)) = 1
    THEN 1 ELSE 0

\* the bit positions the bitstream can have set: entries are below 2^31 << rbits
StreamWidth(ents, bw, rb) == Len(ents) * (bw + rb) + rb + 31

compress_sparse_registers(k, ents, bw, rb) ==
    LET num_bytes == (Len(ents) * (bw + rb) + 7) \div 8
        bit == [p \in 0..(8 * num_bytes - 1) |-> StreamBit(ents, bw, rb, p)]
    IN  IF Len(ents) = 0 THEN Ok(<<>>)
        ELSE IF k = "ndarray" THEN Raise("AttributeError", 132)
        ELSE IF \E p \in (8 * num_bytes)..StreamWidth(ents, bw, rb) :
                    StreamBit(ents, bw, rb, p) = 1
        THEN Raise("OverflowError", 132)
        ELSE Ok(ToBytes(bit, num_bytes))

(***************************************************************************)
(* decompress_sparse_registers                                             *)
(***************************************************************************)
decompress_sparse_registers(np, d, bw, rb) ==
    IF bw + rb = 0 THEN Raise("ZeroDivisionError", 147)
    ELSE LET num_entries == (Len(d) * 8) \div (bw + rb)
             idx == [i \in 1..num_entries |->
                        StoreInt32(np, Field(d, (i - 1) * (bw + rb) + rb, bw))]
             rho == [i \in 1..num_entries |->
                        StoreInt32(np, Field(d, (i - 1) * (bw + rb), rb))]
             bad == {i \in 1..num_entries : idx[i].tag = "raise" \/ rho[i].tag = "raise"}
             first == CHOOSE i \in bad : \A j \in bad : i <= j
         IN  IF bad # {}
             THEN Raise("OverflowError", IF idx[first].tag = "raise" THEN 159 ELSE 160)
             ELSE Ok([i \in 1..num_entries |-> <<idx[i].value, rho[i].value>>])

(***************************************************************************)
(* The calls.                                                              *)
(***************************************************************************)
\* a call of pack_registers on one of the arrays
PackCall(arrays) ==
    /\ op = "pack"
    /\ kind \in ArrayKinds
    /\ registers \in arrays
    /\ binbits \in BinbitsValues
    /\ data = <<>> /\ m = 0 /\ entries = <<>> /\ b = 0 /\ rbits = 0

\* a call of unpack_registers on one of the byte strings and counts
UnpackCall(strings, counts, widths) ==
    /\ op = "unpack"
    /\ data \in strings
    /\ m \in counts
    /\ binbits \in widths
    /\ kind = "ndarray" /\ registers = <<>> /\ entries = <<>> /\ b = 0 /\ rbits = 0

CompressCall ==
    /\ op = "compress"
    /\ kind \in ArrayKinds
    /\ entries \in EntryArrays
    /\ b \in BValues
    /\ rbits \in RbitsValues
    /\ registers = <<>> /\ binbits = 1 /\ data = <<>> /\ m = 0

DecompressCall ==
    /\ op = "decompress"
    /\ data \in ByteStrings
    /\ b \in BValues \cup {WideB}
    /\ rbits \in RbitsValues
    /\ kind = "ndarray" /\ registers = <<>> /\ binbits = 1 /\ m = 0 /\ entries = <<>>

\* the dense codec: one call of pack_registers or unpack_registers
Init ==
    /\ fed = FALSE
    /\ result = NoResult
    /\ \/ PackCall(RegisterArrays)
       \/ UnpackCall(ByteStrings, Counts, BinbitsValues)

\* the dense codec, with the arrays and counts that reach the 2^20-bit limit
InitCapacity ==
    /\ fed = FALSE
    /\ result = NoResult
    /\ \/ PackCall(RegisterArrays \cup {BigRegisters})
       \/ UnpackCall(ByteStrings, Counts \cup {BigM}, BinbitsValues)
       \/ UnpackCall({BigData}, Counts \cup {BigM}, {MaxBinbits, MaxBinbits + 1})

\* the sparse codec: one call of compress_ or decompress_sparse_registers
InitSparse ==
    /\ fed = FALSE
    /\ result = NoResult
    /\ \/ CompressCall
       \/ DecompressCall

\* pack_registers(registers, binbits)
Pack ==
    /\ op = "pack"
    /\ result.tag = "none"
    /\ \E np \in NumpyBuilds : result' = pack_registers(np, kind, registers, binbits)
    /\ UNCHANGED <<op, kind, registers, binbits, data, m, entries, b, rbits, fed>>

\* unpack_registers(data, m, binbits)
Unpack ==
    /\ op = "unpack"
    /\ result.tag = "none"
    /\ \E np \in NumpyBuilds : result' = unpack_registers(np, data, m, binbits)
    /\ UNCHANGED <<op, kind, registers, binbits, data, m, entries, b, rbits, fed>>

\* unpack_registers(pack_registers(registers, binbits), len(registers), binbits)
UnpackPacked ==
    /\ op = "pack"
    /\ result.tag = "ok"
    /\ op' = "unpack"
    /\ data' = result.value
    /\ m' = Len(registers)
    /\ fed' = TRUE
    /\ \E np \in NumpyBuilds :
           result' = unpack_registers(np, result.value, Len(registers), binbits)
    /\ UNCHANGED <<kind, registers, binbits, entries, b, rbits>>

\* compress_sparse_registers(entries, b, rbits)
Compress ==
    /\ op = "compress"
    /\ result.tag = "none"
    /\ result' = compress_sparse_registers(kind, entries, b, rbits)
    /\ UNCHANGED <<op, kind, registers, binbits, data, m, entries, b, rbits, fed>>

\* decompress_sparse_registers(data, b, rbits)
Decompress ==
    /\ op = "decompress"
    /\ result.tag = "none"
    /\ \E np \in NumpyBuilds : result' = decompress_sparse_registers(np, data, b, rbits)
    /\ UNCHANGED <<op, kind, registers, binbits, data, m, entries, b, rbits, fed>>

\* decompress_sparse_registers(compress_sparse_registers(entries, b, rbits), b, rbits)
DecompressCompressed ==
    /\ op = "compress"
    /\ result.tag = "ok"
    /\ op' = "decompress"
    /\ data' = result.value
    /\ fed' = TRUE
    /\ \E np \in NumpyBuilds :
           result' = decompress_sparse_registers(np, result.value, b, rbits)
    /\ UNCHANGED <<kind, registers, binbits, m, entries, b, rbits>>

Next == Pack \/ Unpack \/ UnpackPacked

Spec == Init /\ [][Next]_vars

SpecCapacity == InitCapacity /\ [][Next]_vars

NextSparse == Compress \/ Decompress \/ DecompressCompressed

SpecSparse == InitSparse /\ [][NextSparse]_vars

(***************************************************************************)
(* Vocabulary of the properties.                                           *)
(***************************************************************************)
Returned == result.tag # "none"

\* the error kinds of the specification, by exception class and raising line
ErrorKind(r) ==
    IF r.tag # "raise" THEN "none"
    ELSE IF r.exc = "ValueError" /\ r.line = 95 THEN "InsufficientData"
    ELSE IF r.exc = "ValueError" THEN "InvalidArgument"
    ELSE IF r.exc = "OverflowError" /\ r.line \in {51, 99} THEN "CapacityExceeded"
    ELSE r.exc

ValidBinbits == 1 <= binbits /\ binbits <= 64

\* 0 <= v < 2^w, for v below 2^31
FitsBits(v, w) == v >= 0 /\ (w >= 31 \/ v < Pow2(w))

\* v mod 2^w, for 0 <= v < 2^31
LowBits(v, w) == IF w >= 31 THEN v ELSE v % Pow2(w)

RegistersInRange == \A i \in 1..Len(registers) : FitsBits(registers[i], binbits)

ValidDenseInput ==
    /\ kind = "ndarray"
    /\ ValidBinbits
    /\ Len(registers) * binbits <= SafetyLimitBits
    /\ RegistersInRange

RequiredBytes == (m * binbits + 7) \div 8

EntryInRange(e) == FitsBits(e[1], b) /\ FitsBits(e[2], rbits)

EntriesInRange == \A i \in 1..Len(entries) : EntryInRange(entries[i])

entrybits == b + rbits

(***************************************************************************)
(* C1. Dense round trip: for every register array of in-range values,      *)
(* pack_registers returns bytes without raising, and unpack_registers of   *)
(* those bytes with the same m and binbits gives the array back.           *)
(***************************************************************************)
C1_DenseRoundTrip ==
    /\ (op = "pack" /\ Returned /\ ValidDenseInput) => result.tag = "ok"
    /\ (op = "unpack" /\ fed /\ ValidDenseInput)
          => (result.tag = "ok" /\ result.value = registers)

(***************************************************************************)
(* C2. Length law: for every valid register array, pack_registers returns  *)
(* exactly ceil(len(R) * binbits / 8) bytes.                               *)
(***************************************************************************)
C2_LengthLaw ==
    (op = "pack" /\ Returned /\ ValidDenseInput)
        => /\ result.tag = "ok"
           /\ Len(result.value) = (Len(registers) * binbits + 7) \div 8

(***************************************************************************)
(* C3. Dense wire layout: the returned bytes, read little-endian, hold     *)
(* register i in bits [i*binbits, (i+1)*binbits) and zero above; for       *)
(* [1, 2, 3] with binbits = 4 they are 0x21, 0x03.                         *)
(***************************************************************************)
C3_WireLayout ==
    (op = "pack" /\ Returned /\ ValidDenseInput)
        => /\ result.tag = "ok"
           /\ \A k \in 0..(8 * Len(result.value) - 1) :
                  BitOfBytes(result.value, k) =
                      IF k < Len(registers) * binbits
                      THEN BitOfInt(registers[(k \div binbits) + 1], k % binbits)
                      ELSE 0
           /\ (registers = <<1, 2, 3>> /\ binbits = 4) => result.value = <<33, 3>>

(***************************************************************************)
(* C4. Pack rejection: when binbits is outside [1, 64] or any register is  *)
(* negative or above 2^binbits - 1, pack_registers fails with              *)
(* InvalidArgument and returns no bytes.                                   *)
(***************************************************************************)
C4_PackRejects ==
    (op = "pack" /\ Returned /\ (~ValidBinbits \/ ~RegistersInRange))
        => (ErrorKind(result) = "InvalidArgument" /\ result.value = <<>>)

C4_Witness ==
    /\ op = "pack"
    /\ kind = "ndarray"
    /\ binbits = 4
    /\ registers \in {<<16>>, <<1, 2, 16>>}
    /\ result.tag = "raise"

(***************************************************************************)
(* C5. Capacity ceiling: with valid binbits, pack_registers fails with     *)
(* CapacityExceeded whenever len(registers)*binbits > 2^20, and            *)
(* unpack_registers whenever m*binbits > 2^20 whatever the data; neither   *)
(* does when the bit count is at most 2^20.                                *)
(***************************************************************************)
C5_CapacityCeiling ==
    /\ (op = "pack" /\ Returned /\ kind = "ndarray" /\ ValidBinbits /\ RegistersInRange)
          => (ErrorKind(result) = "CapacityExceeded"
                 <=> Len(registers) * binbits > SafetyLimitBits)
    /\ (op = "unpack" /\ Returned /\ m >= 0 /\ ValidBinbits)
          => (ErrorKind(result) = "CapacityExceeded" <=> m * binbits > SafetyLimitBits)

(***************************************************************************)
(* C6. Unpack argument checking: InvalidArgument for m < 0 or binbits      *)
(* outside [1, 64]; InsufficientData when m >= 1 and data is shorter than  *)
(* ceil(m*binbits/8); no failure when data is long enough and              *)
(* m*binbits <= 2^20.                                                      *)
(***************************************************************************)
C6_UnpackArguments ==
    (op = "unpack" /\ Returned)
        => /\ (m < 0 \/ ~ValidBinbits) => ErrorKind(result) = "InvalidArgument"
           /\ (m >= 1 /\ ValidBinbits /\ Len(data) < RequiredBytes)
                 => ErrorKind(result) = "InsufficientData"
           /\ (m >= 0 /\ ValidBinbits /\ Len(data) >= RequiredBytes
                  /\ m * binbits <= SafetyLimitBits)
                 => result.tag = "ok"

(***************************************************************************)
(* C7. Unpack result: with data long enough and m*binbits <= 2^20,         *)
(* unpack_registers returns exactly m integers, element i being bits       *)
(* [i*binbits, (i+1)*binbits) of data, each in [0, 2^binbits - 1].         *)
(***************************************************************************)
C7_UnpackResult ==
    (op = "unpack" /\ Returned /\ m >= 0 /\ ValidBinbits /\ Len(data) >= RequiredBytes
        /\ m * binbits <= SafetyLimitBits)
        => /\ result.tag = "ok"
           /\ Len(result.value) = m
           /\ \A i \in 1..m :
                  /\ result.value[i] >= 0
                  /\ \A j \in 0..(binbits - 1) :
                         BitOfInt(result.value[i], j) = BitOfBytes(data, (i - 1) * binbits + j)

(***************************************************************************)
(* C8. Sparse round trip: for in-range entries whose byte padding holds no *)
(* whole extra slot, compress_sparse_registers returns bytes and           *)
(* decompress_sparse_registers of them gives the entries back; for         *)
(* [(0,5), (1,10)], b = 4, rbits = 6 the bytes encode 75781.               *)
(***************************************************************************)
C8_SparseRoundTrip ==
    (entrybits >= 1 /\ EntriesInRange
        /\ (8 * ((Len(entries) * entrybits + 7) \div 8)) \div entrybits = Len(entries))
        => /\ (op = "compress" /\ Returned) => result.tag = "ok"
           /\ (op = "decompress" /\ fed) => (result.tag = "ok" /\ result.value = entries)
           /\ (op = "compress" /\ Returned /\ entries = << <<0, 5>>, <<1, 10>> >>
                  /\ b = 4 /\ rbits = 6)
                 => result.value = <<5, 40, 1>>

(***************************************************************************)
(* C9. Sparse entry count: decompress_sparse_registers always returns      *)
(* exactly (len(data)*8) // (b+rbits) entries; so decompress(compress(E))  *)
(* for in-range E starts with E and holds only (0, 0) after it.            *)
(***************************************************************************)
C9_SparseCount ==
    entrybits >= 1
        => /\ (op = "decompress" /\ Returned)
                 => /\ result.tag = "ok"
                    /\ Len(result.value) = (Len(data) * 8) \div entrybits
           /\ (op = "compress" /\ Returned /\ EntriesInRange) => result.tag = "ok"
           /\ (op = "decompress" /\ fed /\ EntriesInRange /\ result.tag = "ok")
                 => /\ Len(result.value) >= Len(entries)
                    /\ \A i \in 1..Len(result.value) :
                           result.value[i] =
                               IF i <= Len(entries) THEN entries[i] ELSE <<0, 0>>

(***************************************************************************)
(* C10, as stated. For every entry sequence with an entry whose rho or     *)
(* index is out of range, compress_sparse_registers returns bytes without  *)
(* raising, and a neighbouring entry's field in the output differs from    *)
(* the entry given.                                                        *)
(***************************************************************************)
GivenField(e) ==
    [t \in 0..(entrybits - 1) |->
        IF t < rbits THEN BitOfInt(LowBits(e[2], rbits), t)
        ELSE BitOfInt(LowBits(e[1], b), t - rbits)]

C10_AsStated ==
    (op = "compress" /\ Returned /\ ~EntriesInRange)
        => /\ result.tag = "ok"
           /\ \A i \in 1..Len(entries) :
                  ~EntryInRange(entries[i])
                      => \E j \in {i - 1, i + 1} \cap (1..Len(entries)) :
                             Field(result.value, (j - 1) * entrybits, entrybits)
                                 # GivenField(entries[j])

(***************************************************************************)
(* C10, amended. compress_sparse_registers validates no range: it never    *)
(* fails with InvalidArgument.  On a sequence of Python int pairs an       *)
(* out-of-range rho is truncated to its low rbits bits and changes no      *)
(* other field: every entry preceded only by in-range indexes is written   *)
(* as (index mod 2^b, rho mod 2^rbits).  An out-of-range index is OR-ed    *)
(* unmasked: its bits above b are set in the positions that follow its     *)
(* field (the next entry's field or the padding), and the call raises      *)
(* OverflowError, returning nothing, exactly when such a bit lies beyond   *)
(* the last byte; with every index in range the call returns.  On a        *)
(* non-empty NumPy array the call raises AttributeError.                   *)
(***************************************************************************)
C10_NoValidation ==
    (op = "compress" /\ Returned)
        => /\ ErrorKind(result) # "InvalidArgument"
           /\ (kind = "ndarray" /\ Len(entries) > 0)
                 => (result.tag = "raise" /\ result.exc = "AttributeError")
           /\ (kind = "list" /\ result.tag = "raise")
                 => /\ result.exc = "OverflowError"
                    /\ \E i \in 1..Len(entries) : \E t \in 0..30 :
                           /\ BitOfInt(entries[i][1], b + t) = 1
                           /\ i * entrybits + t >= 8 * ((Len(entries) * entrybits + 7) \div 8)
           /\ (kind = "list" /\ \A i \in 1..Len(entries) : FitsBits(entries[i][1], b))
                 => result.tag = "ok"
           /\ (kind = "list" /\ result.tag = "ok")
                 => /\ Len(result.value) = (Len(entries) * entrybits + 7) \div 8
                    /\ \A j \in 1..Len(entries) :
                           (\A i \in 1..(j - 1) : FitsBits(entries[i][1], b))
                               => Field(result.value, (j - 1) * entrybits, entrybits)
                                      = GivenField(entries[j])
                    /\ \A i \in 1..Len(entries) : \A t \in 0..30 :
                           BitOfInt(entries[i][1], b + t) = 1
                               => BitOfBytes(result.value, i * entrybits + t) = 1

C10_Witness ==
    /\ op = "compress"
    /\ kind = "list"
    /\ result.tag = "ok"
    /\ \E i \in 1..(Len(entries) - 1) :
           /\ ~FitsBits(entries[i][1], b)
           /\ FitsBits(entries[i][2], rbits)
           /\ Field(result.value, i * entrybits, entrybits) # GivenField(entries[i + 1])
    /\ \E i \in 1..Len(entries) : ~FitsBits(entries[i][2], rbits)
====
